---- MODULE Spec2Model ----
(***************************************************************************)
(* A model of schemec/gencpp.py: the primitive registry, the hole          *)
(* analysis, the lambda lifter, the lowering of a CPS tree to ordered      *)
(* declaration/operation pairs, and the execution of the emitted           *)
(* operations (shared slots, closures, halt).                              *)
(***************************************************************************)
EXTENDS Integers, Sequences, FiniteSets, TLC

VARIABLES
  p_op, p_dst, p_args, p_res,         \* one call of gen_primop and its outcome
  rootExp,                            \* the tree handed to gen_cpp
  h_pc,                               \* nodes of the traversal already visited
  holes,                              \* find_holes' running set
  holes_dict,                         \* Lambda identity -> recorded hole set
  body,                               \* result of exp.map(to_cpp), or NotLowered
  l_lg,                               \* a lifter: [decls (ordered table), nargs]
  l_hist,                             \* the Lambdas looked up so far, in order
  l_rets,                             \* the name each lookup returned
  l_first,                            \* Lambda -> the entry its first lookup made
  t_tag, t_payload,                   \* halt's argument: the tag read, the member written
  t_pc, t_retval, t_out, t_status,    \* halt's operation: position, retval, output, status
  r_phase, r_pc,                      \* the emitted main(): phase, operations executed
  r_env, r_heap,                      \* identifier -> slot (0 = null), the slots
  r_calls, r_out, r_status            \* closure invocations, output, exit status

pvars == <<p_op, p_dst, p_args, p_res>>
cvars == <<rootExp, h_pc, holes, holes_dict, body>>
lvars == <<l_lg, l_hist, l_rets, l_first>>
tvars == <<t_tag, t_payload, t_pc, t_retval, t_out, t_status>>
rvars == <<r_phase, r_pc, r_env, r_heap, r_calls, r_out, r_status>>
vars == <<pvars, cvars, lvars, tvars, rvars>>

\* ------------------------------------------------------------------ tags
NUM == "NUM"
LAM == "LAM"
STR == "STR"
TYPES == <<NUM, LAM, STR>>

\* ------------------------------------------------------ primitive registry
\* Outcomes of a call: kind "ok" carries (typ, code); the other kinds are the
\* exception raised.  Code text is a sequence of tokens.
Ok(typ, code) == [kind |-> "ok", typ |-> typ, code |-> code]
Raise(exc) == [kind |-> exc, typ |-> "", code |-> <<>>]
NoResult == [kind |-> "none", typ |-> "", code |-> <<>>]

NumBinaryOps == {"+", "-", "*", "="}
NumBinaryOp(op) ==
  CASE op = "+" -> "+"
    [] op = "-" -> "-"
    [] op = "*" -> "*"
    [] op = "=" -> "=="
NumUnaryOps == {"zero?"}
NumUnaryOp(op) == "== 0"
StrBinaryOps == {"string-append", "string=?"}

NumBinaryFmt(dst, lhs, op, rhs) ==
  <<dst, "->num", "=", lhs, "->num", op, rhs, "->num", ";">>
NumUnaryFmt(dst, lhs, op) ==
  <<dst, "->num", "=", lhs, "->num", op, ";">>
StrBinaryFmt(op, dst, lhs, rhs) ==
  IF op = "string-append"
  THEN <<dst, "->str", "=", "std::shared_ptr<std::string>(", lhs, "->str", ")", ";",
         dst, "->str", ".append(", rhs, "->str", ")", ";">>
  ELSE <<dst, "->num", "=", lhs, "->str", ".compare(", rhs, "->str", ")", "!= 0", ";">>

\* NumPrimOps.__call__(op, dst, lhs, rhs=None): the positional signature
\* accepts one or two operands; any other count is a TypeError of the call.
NumPrimOpsCall(op, dst, args) ==
  IF Len(args) < 1 \/ Len(args) > 2 THEN Raise("TypeError")
  ELSE IF Len(args) = 1
       THEN IF op \in NumUnaryOps
            THEN Ok(NUM, NumUnaryFmt(dst, args[1], NumUnaryOp(op)))
            ELSE Raise("RuntimeError")
       ELSE IF op \in NumBinaryOps
            THEN Ok(NUM, NumBinaryFmt(dst, args[1], NumBinaryOp(op), args[2]))
            ELSE Raise("RuntimeError")

\* StrPrimOps.__call__(op, dst, lhs, rhs=None)
StrPrimOpsCall(op, dst, args) ==
  IF Len(args) < 1 \/ Len(args) > 2 THEN Raise("TypeError")
  ELSE IF Len(args) = 1 THEN Raise("RuntimeError")
       ELSE IF op \in StrBinaryOps
            THEN Ok(STR, StrBinaryFmt(op, dst, args[1], args[2]))
            ELSE Raise("RuntimeError")

NumContains(key) == key \in NumBinaryOps \/ key \in NumUnaryOps
StrContains(key) == key \in StrBinaryOps

is_primop(op) == NumContains(op) \/ StrContains(op)

gen_primop(op, dst, args) ==
  IF NumContains(op) THEN NumPrimOpsCall(op, dst, args)
  ELSE IF StrContains(op) THEN StrPrimOpsCall(op, dst, args)
  ELSE Raise("KeyError")

\* ---------------------------------------------- specification: registry
MaxOperands == 3
OpNames == NumBinaryOps \cup NumUnaryOps \cup StrBinaryOps \cup {"bogus"}
OperandIds == {"a", "b"}
OperandLists == UNION {[1..n -> OperandIds] : n \in 0..MaxOperands}

InitPrim ==
  /\ p_op \in OpNames
  /\ p_dst = "d"
  /\ p_args \in OperandLists
  /\ p_res = NoResult

CallGenPrimop ==
  /\ p_res.kind = "none"
  /\ p_res' = gen_primop(p_op, p_dst, p_args)
  /\ UNCHANGED <<p_op, p_dst, p_args>>
  /\ UNCHANGED <<cvars, lvars, tvars, rvars>>

NextPrim == CallGenPrimop

\* The arity of the table an operator is in, and the tag the registry's
\* description gives its result.
TableArity(op) == IF op \in NumUnaryOps THEN 1 ELSE 2
ClaimedTag(op) == IF op = "string-append" THEN STR ELSE NUM

\* (C6) For every registry operator applied with its table arity, gen_primop
\* returns the tag the registry specifies: Number for + - * = zero? and
\* string=?, Text for string-append; + computes lhs + rhs, zero? computes
\* lhs == 0, string=? stores an inequality test into the numeric payload.
C6_RegistryTags ==
  (p_res.kind # "none" /\ is_primop(p_op) /\ Len(p_args) = TableArity(p_op)) =>
     /\ p_res.kind = "ok"
     /\ p_res.typ = ClaimedTag(p_op)
     /\ p_op = "+" =>
          p_res.code = <<p_dst, "->num", "=", p_args[1], "->num", "+", p_args[2], "->num", ";">>
     /\ p_op = "zero?" =>
          p_res.code = <<p_dst, "->num", "=", p_args[1], "->num", "== 0", ";">>
     /\ p_op = "string=?" =>
          (p_res.code[2] = "->num" /\ p_res.code[Len(p_res.code) - 1] = "!= 0")

\* (C7) Every call of gen_primop either returns (tag, code) or fails with the
\* unimplemented-primitive error (the RuntimeError of lines 63 and 102); it
\* fails with that error when the operator is in neither table and when the
\* operand count differs from the arity of the table the operator is in.
C7_UnimplementedError ==
  p_res.kind # "none" =>
     /\ p_res.kind \in {"ok", "RuntimeError"}
     /\ ~is_primop(p_op) => p_res.kind = "RuntimeError"
     /\ (is_primop(p_op) /\ Len(p_args) # TableArity(p_op)) => p_res.kind = "RuntimeError"

IdleCompile ==
  /\ rootExp = 0 /\ h_pc = 0 /\ holes = {} /\ holes_dict = <<>> /\ body = 0
IdlePrim ==
  /\ p_op = "" /\ p_dst = "" /\ p_args = <<>> /\ p_res = NoResult

IdleLifter ==
  /\ l_lg = 0 /\ l_hist = <<>> /\ l_rets = <<>> /\ l_first = <<>>
IdleHalt ==
  /\ t_tag = "" /\ t_payload = 0 /\ t_pc = "" /\ t_retval = 0 /\ t_out = <<>> /\ t_status = 0
IdleRun ==
  /\ r_phase = "" /\ r_pc = 0 /\ r_env = <<>> /\ r_heap = <<>>
  /\ r_calls = <<>> /\ r_out = <<>> /\ r_status = 0
InitP == InitPrim /\ IdleCompile /\ IdleLifter /\ IdleHalt /\ IdleRun
SpecPrim == InitP /\ [][NextPrim]_vars

\* ------------------------------------------------------------ the tree
\* Expression nodes (schemec.types).  args/kids are sequences of nodes:
\*   Lam    args = formal parameters, kids = <<body>>, id = its unique name
\*   App    kids = <<callee>>, args = arguments
\*   If     kids = <<cond, then, else>>
\*   LetRec args = bound variables, kids = the bound expressions, then the body
\*   Bool   val = 1 for a true literal, 0 for a false one
\*   Cpp    an already lowered fragment (CppCode): typ = the kind of the node
\*          it was lowered from, name = its code, decls = its pairs
\* typ is the node's own kind, except for a Cpp node.
Node(k, name, id, val, args, kids, decls) ==
  [k |-> k, typ |-> k, name |-> name, id |-> id, val |-> val, args |-> args,
   kids |-> kids, decls |-> decls]
VarExp(name) == Node("Var", name, 0, 0, <<>>, <<>>, <<>>)
NumExp(v) == Node("Num", "", 0, v, <<>>, <<>>, <<>>)
BoolExp(b) == Node("Bool", "", 0, IF b THEN 1 ELSE 0, <<>>, <<>>, <<>>)
StrExp(s) == Node("Str", s, 0, 0, <<>>, <<>>, <<>>)
LamExp(id, params, bodyExp) ==
  Node("Lam", "", id, 0, [i \in 1..Len(params) |-> VarExp(params[i])], <<bodyExp>>, <<>>)
AppExp(funcExp, argExps) == Node("App", "", 0, 0, argExps, <<funcExp>>, <<>>)
IfExp(condExp, thenExp, elseExp) ==
  Node("If", "", 0, 0, <<>>, <<condExp, thenExp, elseExp>>, <<>>)
LetRecExp(names, exps, bodyExp) ==
  Node("LetRec", "", 0, 0, [i \in 1..Len(names) |-> VarExp(names[i])],
       exps \o <<bodyExp>>, <<>>)
CppCode(typ, code, decls) ==
  [Node("Cpp", code, 0, 0, <<>>, <<>>, decls) EXCEPT !.typ = typ]

\* CppCode.decls_ops: the declarations of the pairs, and their operations.
CppCodeDeclsOps(c) ==
  [decls |-> [i \in 1..Len(c.decls) |-> c.decls[i].decl],
   ops |-> [i \in 1..Len(c.decls) |-> c.decls[i].op]]

\* Identifiers of the emitted text: <<prefix, serial>>; a source name has serial 0.
Ident(name) == <<name, 0>>

\* The halt continuation: LamExp([CppCode(VarExp, '__halt_N', [])],
\* CppCode(LamExp, 'THUNK_T(nullptr)', [('int retval = 0;', switch ...)])).
HaltId == 0
HaltArg == "__halt_"
HaltPair ==
  [decl |-> <<[ty |-> "int", id |-> Ident("retval"), construct |-> FALSE]>>,
   op |-> [k |-> "halt", arg |-> Ident(HaltArg),
           cases |-> <<NUM, LAM, STR, "default">>]]
halt ==
  Node("Lam", "", HaltId, 0, <<CppCode("Var", HaltArg, <<>>)>>,
       <<CppCode("Lam", "THUNK_T(nullptr)", <<HaltPair>>)>>, <<>>)

RECURSIVE Flatten(_)
Flatten(ss) == IF ss = <<>> THEN <<>> ELSE Head(ss) \o Flatten(Tail(ss))

\* exp.map(f): f is applied to every node after the node's children
\* (bottom-up), children in evaluation order: the callee before the
\* arguments, the formals before the body, each binding before the next.
RECURSIVE PostOrder(_)
PostOrder(exp) ==
  LET sub(s) == Flatten([i \in 1..Len(s) |-> PostOrder(s[i])])
  IN  CASE exp.k = "Lam" -> sub(exp.args) \o sub(exp.kids) \o <<exp>>
        [] exp.k = "App" -> sub(exp.kids) \o sub(exp.args) \o <<exp>>
        [] exp.k = "If" -> sub(exp.kids) \o <<exp>>
        [] exp.k = "LetRec" ->
             Flatten([i \in 1..Len(exp.args) |->
                        PostOrder(exp.args[i]) \o PostOrder(exp.kids[i])])
             \o PostOrder(exp.kids[Len(exp.kids)]) \o <<exp>>
        [] OTHER -> <<exp>>

\* ------------------------------------------------------- compute_holes
\* set(exp.argExps): the formals that are VarExp; a CppCode formal (halt's)
\* equals no VarExp of the running set.
ArgSet(exp) == {exp.args[i].name : i \in {j \in 1..Len(exp.args) : exp.args[j].k = "Var"}}

\* A find_holes that records the running set as it is, without removing the
\* Lambda's formals or filtering primitive names: C4 does not hold of it.
find_holes_unfiltered(st, exp) ==
  IF exp.k = "Lam"
  THEN [holes |-> st.holes, dict |-> (exp.id :> st.holes) @@ st.dict]
  ELSE IF exp.k = "Var" THEN [st EXCEPT !.holes = st.holes \cup {exp.name}]
       ELSE st

\* find_holes(holes, exp) on the state [holes, dict]
find_holes(st, exp) ==
  IF exp.k = "Lam"
  THEN [holes |-> st.holes \ ArgSet(exp),
        dict |-> (exp.id :> (st.holes \ ArgSet(exp))) @@ st.dict]
  ELSE IF exp.k = "Var"
       THEN IF ~is_primop(exp.name)
            THEN [st EXCEPT !.holes = st.holes \cup {exp.name}]
            ELSE st
       ELSE st

RECURSIVE FoldHoles(_, _)
FoldHoles(st, nodes) ==
  IF nodes = <<>> THEN st ELSE FoldHoles(find_holes(st, Head(nodes)), Tail(nodes))

compute_holes(exp) == FoldHoles([holes |-> {}, dict |-> <<>>], PostOrder(exp)).dict

\* ------------------------------------------------- declaration/operation
\* A pair is (declaration, operation).  A declaration lists the identifiers
\* it declares; declare(var) constructs a fresh slot, THUNK_T v(nullptr) a
\* null thunk.
Decl(id) == [ty |-> "SCHEMETYPE_T", id |-> id, construct |-> TRUE]
ThunkDecl(id) == [ty |-> "THUNK_T", id |-> id, construct |-> FALSE]
Pair(decl, op) == [decl |-> decl, op |-> op]

\* gensym(prefix): a fresh identifier from the compilation's serial counter.
gensym(sym, st) == <<sym, st.n>>
Bump(st) == [st EXCEPT !.n = @ + 1]

ClsName(id) == <<"lambda", id>>

\* LambdaGenCpp.__getitem__(exp) on the lifter state lg = [decls, nargs];
\* exp is the Lambda with lowered children; hs is self.holes[exp].  The test
\* of line 176 looks exp.name up in a table whose keys are the Lambda nodes
\* (line 181), so it never finds it: every lookup adds the arity and stores
\* the definition built from exp as it is now.  Storing under a key the
\* ordered table holds replaces the value and keeps the key's position.
LambdaGenCppGetItem(lg, exp, hs) ==
  LET entry == [key |-> exp.id, cls |-> ClsName(exp.id), init_args |-> hs,
                apply_args |-> exp.args, decls |-> exp.body.decls,
                body |-> exp.body.code]
  IN  [decls |-> IF \E i \in 1..Len(lg.decls) : lg.decls[i].key = exp.id
                 THEN [i \in 1..Len(lg.decls) |->
                         IF lg.decls[i].key = exp.id THEN entry ELSE lg.decls[i]]
                 ELSE Append(lg.decls, entry),
       nargs |-> lg.nargs \cup {Len(exp.args)}]

\* LambdaGenCpp.decls_ops: min(self.nargs) raises ValueError on an empty
\* set; otherwise lambda_t gets one operator per arity of
\* range(min_nargs, max_nargs + 1), followed by the stored definitions.
LambdaGenCppDeclsOps(lg) ==
  IF lg.nargs = {} THEN [err |-> "ValueError", sigs |-> {}, classes |-> <<>>]
  ELSE LET lo == CHOOSE n \in lg.nargs : \A m \in lg.nargs : n <= m
           hi == CHOOSE n \in lg.nargs : \A m \in lg.nargs : n >= m
       IN  [err |-> "", sigs |-> lo..hi, classes |-> lg.decls]

LambdaGenCppInit == [decls |-> <<>>, nargs |-> {}]

\* CppCode(type(exp), code, decls) and the state threaded through the map.
Frag(typ, code, decls, st) == [typ |-> typ, code |-> code, decls |-> decls, st |-> st]
Failed(st, exc) == Frag("", <<"", 0>>, <<>>, [st EXCEPT !.err = exc])
Codes(rs) == [i \in 1..Len(rs) |-> rs[i].code]
AllDecls(rs) == Flatten([i \in 1..Len(rs) |-> rs[i].decls])
Interleave(a, b) == [i \in 1..(2 * Len(a)) |-> IF i % 2 = 1 THEN a[(i + 1) \div 2] ELSE b[i \div 2]]

\* exp.map(to_cpp): hd is gen_cpp's holes map.
RECURSIVE to_cpp(_, _, _), MapSeq(_, _, _)
MapSeq(hd, nodes, st) ==
  IF nodes = <<>> THEN [rs |-> <<>>, st |-> st]
  ELSE LET r == to_cpp(hd, Head(nodes), st)
           rest == MapSeq(hd, Tail(nodes), r.st)
       IN  [rs |-> <<r>> \o rest.rs, st |-> rest.st]

to_cpp(hd, exp, st) ==
  IF st.err # "" THEN Failed(st, st.err)
  ELSE CASE exp.k = "Var" -> Frag("Var", Ident(exp.name), <<>>, st)
    [] exp.k = "Num" ->
         LET tmp == gensym("__num_", st)
         IN  Frag("Num", tmp,
                  <<Pair(<<Decl(tmp)>>,
                         [k |-> "lit", var |-> tmp, typ |-> NUM, val |-> exp.val])>>,
                  Bump(st))
    [] exp.k = "Bool" ->
         LET tmp == gensym("__bool_", st)
         IN  Frag("Bool", tmp,
                  <<Pair(<<Decl(tmp)>>,
                         [k |-> "lit", var |-> tmp, typ |-> NUM,
                          val |-> IF exp.val # 0 THEN 1 ELSE 0])>>,
                  Bump(st))
    [] exp.k = "Str" ->
         LET tmp == gensym("__str_", st)
         IN  Frag("Str", tmp,
                  <<Pair(<<Decl(tmp)>>,
                         [k |-> "lit", var |-> tmp, typ |-> STR, val |-> exp.name])>>,
                  Bump(st))
    [] exp.k = "Cpp" -> Frag(exp.typ, Ident(exp.name), exp.decls, st)
    [] exp.k = "Lam" ->
         LET ra == MapSeq(hd, exp.args, st)
             rb == to_cpp(hd, exp.kids[1], ra.st)
             st1 == rb.st
             mapped == [id |-> exp.id, args |-> Codes(ra.rs),
                        body |-> [decls |-> rb.decls, code |-> rb.code]]
             tmp == gensym("__lam_", st1)
         IN  IF st1.err # "" THEN Failed(st1, st1.err)
             ELSE Frag("Lam", tmp,
                       <<Pair(<<Decl(tmp)>>,
                              [k |-> "newlam", var |-> tmp, cls |-> ClsName(exp.id),
                               holes |-> hd[exp.id]])>>,
                       [Bump(st1) EXCEPT
                          !.lg = LambdaGenCppGetItem(st1.lg, mapped, hd[exp.id]),
                          !.lookups = Append(@, mapped)])
    [] exp.k = "App" ->
         LET rf == to_cpp(hd, exp.kids[1], st)
             ra == MapSeq(hd, exp.args, rf.st)
             st1 == ra.st
             decls == AllDecls(ra.rs) \o rf.decls
             tmp == gensym("__ret_", st1)
             func == rf.code
             args == Codes(ra.rs)
         IN  IF st1.err # "" THEN Failed(st1, st1.err)
             ELSE IF func[2] = 0 /\ is_primop(func[1])
             THEN LET prim == gensym("__prim_", Bump(st1))
                      r == gen_primop(func[1], prim, SubSeq(args, 1, Len(args) - 1))
                  IN  IF r.kind # "ok" THEN Failed(Bump(Bump(st1)), r.kind)
                      ELSE Frag("App", tmp,
                             decls \o
                             <<Pair(<<Decl(prim), ThunkDecl(tmp)>>,
                                    [k |-> "prim", prim |-> prim, typ |-> r.typ,
                                     primop |-> func[1],
                                     operands |-> SubSeq(args, 1, Len(args) - 1),
                                     body |-> r.code, var |-> tmp,
                                     func |-> args[Len(args)]])>>,
                             Bump(Bump(st1)))
             ELSE IF rf.typ = "Var"
             THEN Frag("App", tmp,
                       decls \o
                       <<Pair(<<ThunkDecl(tmp)>>,
                              [k |-> "call", var |-> tmp, func |-> func, args |-> args])>>,
                       Bump(st1))
             ELSE Failed(Bump(st1), "RuntimeError")
    [] exp.k = "If" ->
         LET rc == to_cpp(hd, exp.kids[1], st)
             rt == to_cpp(hd, exp.kids[2], rc.st)
             re == to_cpp(hd, exp.kids[3], rt.st)
             st1 == re.st
             tmp == gensym("__ret_", st1)
         IN  IF st1.err # "" THEN Failed(st1, st1.err)
             ELSE Frag("If", tmp,
                       rc.decls \o
                       <<Pair(<<ThunkDecl(tmp)>>,
                              [k |-> "if", cond |-> rc.code,
                               then_decls |-> rt.decls, then |-> rt.code,
                               else_decls |-> re.decls, else_ |-> re.code,
                               var |-> tmp])>>,
                       Bump(st1))
    [] exp.k = "LetRec" ->
         LET nb == Len(exp.args)
             rm == MapSeq(hd, Interleave(exp.args, SubSeq(exp.kids, 1, nb))
                              \o <<exp.kids[nb + 1]>>, st)
             st1 == rm.st
             rs == rm.rs
         IN  IF st1.err # "" THEN Failed(st1, st1.err)
             ELSE Frag("LetRec", rs[2 * nb + 1].code,
                       Flatten([i \in 1..nb |->
                          rs[2 * i].decls \o
                          <<Pair(<<Decl(rs[2 * i - 1].code)>>,
                                 [k |-> "move", var |-> rs[2 * i - 1].code,
                                  body |-> rs[2 * i].code])>>])
                       \o rs[2 * nb + 1].decls,
                       st1)
    [] OTHER -> Failed(st, "RuntimeError")

\* lookups: the Lambdas handed to lambda_gen so far, as they were handed.
GenInit == [n |-> 1, lg |-> LambdaGenCppInit, err |-> "", lookups |-> <<>>]
NotLowered == [typ |-> "none", code |-> <<"", 0>>, decls |-> <<>>, st |-> GenInit]

\* ------------------------------------------------------- input trees
\* CPS-shaped trees: calls whose operands are variables or literals and
\* whose last argument is the continuation.
MaxCallOperands == 2
OpLists(S) == UNION {[1..n -> S] : n \in 1..MaxCallOperands}
Calls(fns, ops, conts) ==
  {AppExp(VarExp(fn), os \o <<c>>) : fn \in fns, os \in OpLists(ops), c \in conts}
Prims == {"+", "zero?"}

PrimProgs ==
  Calls(Prims, {NumExp(1)},
        {halt} \cup {LamExp(1, <<"r">>, b) :
                       b \in Calls(Prims, {VarExp("r"), NumExp(1)}, {halt})})
LoopBodies ==
  Calls({"f", "k"} \cup Prims, {VarExp("n"), NumExp(1)}, {VarExp("k"), halt})
  \cup {IfExp(VarExp("n"), t, e) :
          t, e \in {AppExp(VarExp(fn), <<VarExp("n"), VarExp("k")>>) : fn \in {"f", "k"}}}
LetRec1Progs ==
  {LetRecExp(<<"f">>, <<LamExp(1, <<"n", "k">>, b)>>, m) :
     b \in LoopBodies, m \in Calls({"f"}, {NumExp(1)}, {halt})}
LetRec2Progs ==
  {LetRecExp(<<"f", "g">>,
             <<LamExp(1, <<"n", "k">>, AppExp(VarExp(t1), <<VarExp("n"), VarExp("k")>>)),
               LamExp(2, <<"m", "j">>, AppExp(VarExp(t2), <<VarExp("m"), VarExp("j")>>))>>,
             AppExp(VarExp(e), <<NumExp(1), halt>>)) :
     t1 \in {"f", "g", "k"}, t2 \in {"f", "g", "j"}, e \in {"f", "g"}}
ParamLists == {<<"n">>, <<"k">>, <<"n", "k">>}
NestedLams ==
  {LamExp(1, ps1,
          AppExp(VarExp(fn1),
                 <<o1, LamExp(2, ps2, AppExp(VarExp(fn2), <<o2, c>>))>>)) :
     ps1 \in ParamLists, ps2 \in ParamLists, fn1 \in {"f", "+"}, fn2 \in {"f", "k", "+"},
     o1 \in {VarExp("n")}, o2 \in {VarExp("n"), VarExp("+")}, c \in {VarExp("k"), halt}}
\* One Lambda node passed twice, and conditionals on a boolean literal.
SharedLamProgs ==
  {AppExp(VarExp("f"), <<l, l, c>>) :
     l \in {LamExp(1, <<"x">>, b) : b \in Calls(Prims, {VarExp("x")}, {VarExp("k")})},
     c \in {halt, LamExp(2, <<>>, AppExp(VarExp("k"), <<NumExp(0)>>))}}
BoolProgs ==
  {LetRecExp(<<"f">>,
             <<LamExp(1, <<"n", "k">>,
                      IfExp(BoolExp(b), AppExp(VarExp("k"), <<VarExp("n")>>),
                            AppExp(VarExp("f"), <<VarExp("n"), VarExp("k")>>)))>>,
             AppExp(VarExp("f"), <<BoolExp(c), halt>>)) : b, c \in BOOLEAN}
InputTrees ==
  PrimProgs \cup LetRec1Progs \cup LetRec2Progs \cup NestedLams
  \cup SharedLamProgs \cup BoolProgs

\* ------------------------------------------- specification: compilation
InitCompile ==
  /\ rootExp \in InputTrees
  /\ h_pc = 0
  /\ holes = {}
  /\ holes_dict = <<>>
  /\ body = NotLowered

Traversal == PostOrder(rootExp)
Current == Traversal[h_pc + 1]
Step ==
  LET st == find_holes([holes |-> holes, dict |-> holes_dict], Current)
  IN  /\ holes' = st.holes
      /\ holes_dict' = st.dict
      /\ h_pc' = h_pc + 1
      /\ UNCHANGED <<rootExp, body>>
      /\ UNCHANGED <<pvars, lvars, tvars, rvars>>

VisitLam == h_pc < Len(Traversal) /\ Current.k = "Lam" /\ Step
VisitVar == h_pc < Len(Traversal) /\ Current.k = "Var" /\ Step
VisitOther == h_pc < Len(Traversal) /\ Current.k \notin {"Lam", "Var"} /\ Step

\* gen_cpp after compute_holes: body = exp.map(to_cpp)
Lower ==
  /\ h_pc = Len(Traversal)
  /\ body.typ = "none"
  /\ body' = to_cpp(holes_dict, rootExp, GenInit)
  /\ UNCHANGED <<rootExp, h_pc, holes, holes_dict>>
  /\ UNCHANGED <<pvars, lvars, tvars, rvars>>

NextCompile == VisitLam \/ VisitVar \/ VisitOther \/ Lower
Init == InitCompile /\ IdlePrim /\ IdleLifter /\ IdleHalt /\ IdleRun
Spec == Init /\ [][NextCompile]_vars

\* ------------------------------------------------ scoping of the input
IsPrimVar(exp) == exp.k = "Var" /\ is_primop(exp.name)
ArgNames(exp) == {exp.args[i].name : i \in 1..Len(exp.args)}

\* Every variable that is not a primitive name resolves to a formal of an
\* enclosing Lambda or to a name of an enclosing recursive-binding block.
RECURSIVE WellScoped(_, _)
WellScoped(exp, env) ==
  CASE exp.k = "Var" -> is_primop(exp.name) \/ exp.name \in env
    [] exp.k = "Lam" -> WellScoped(exp.kids[1], env \cup ArgSet(exp))
    [] exp.k = "App" ->
         /\ WellScoped(exp.kids[1], env)
         /\ \A i \in 1..Len(exp.args) : WellScoped(exp.args[i], env)
    [] exp.k = "If" -> \A i \in 1..3 : WellScoped(exp.kids[i], env)
    [] exp.k = "LetRec" ->
         \A i \in 1..Len(exp.kids) : WellScoped(exp.kids[i], env \cup ArgSet(exp))
    [] OTHER -> TRUE

\* The names that occur free in exp.
RECURSIVE FreeVars(_)
FreeVars(exp) ==
  CASE exp.k = "Var" -> IF is_primop(exp.name) THEN {} ELSE {exp.name}
    [] exp.k = "Lam" -> FreeVars(exp.kids[1]) \ ArgSet(exp)
    [] exp.k = "App" ->
         FreeVars(exp.kids[1]) \cup UNION {FreeVars(exp.args[i]) : i \in 1..Len(exp.args)}
    [] exp.k = "If" -> UNION {FreeVars(exp.kids[i]) : i \in 1..3}
    [] exp.k = "LetRec" ->
         UNION {FreeVars(exp.kids[i]) : i \in 1..Len(exp.kids)} \ ArgSet(exp)
    [] OTHER -> {}

\* The binders of the tree (formals and recursively bound names), one entry
\* per binding occurrence; halt's generated formal is left out.
Binders(exp) ==
  LET po == PostOrder(exp)
      bs(e) == IF e.k \in {"Lam", "LetRec"} /\ ~(e.k = "Lam" /\ e.id = HaltId)
               THEN [i \in 1..Len(e.args) |-> e.args[i].name] ELSE <<>>
  IN  Flatten([i \in 1..Len(po) |-> bs(po[i])])
UniqueNames(exp) ==
  LET b == Binders(exp) IN \A i, j \in 1..Len(b) : i # j => b[i] # b[j]

\* Primitive applications carry as many operands as the table of the
\* operator takes, plus the continuation.
ArityOk(exp) ==
  LET po == PostOrder(exp)
  IN  \A i \in 1..Len(po) :
        (po[i].k = "App" /\ IsPrimVar(po[i].kids[1])) =>
           Len(po[i].args) = TableArity(po[i].kids[1].name) + 1

HolesDone == h_pc = Len(Traversal)
Lowered == body.typ # "none"

\* -------------------------------------------------------- properties
\* (C4) For every Lambda node of any input tree the recorded hole set
\* contains none of that Lambda's own parameter names and no name of a
\* primitive operator.
C4_HolesExcludeParamsAndPrimops ==
  \A i \in 1..h_pc :
     Traversal[i].k = "Lam" =>
        /\ holes_dict[Traversal[i].id] \cap ArgNames(Traversal[i]) = {}
        /\ \A n \in holes_dict[Traversal[i].id] : ~is_primop(n)

\* A Lambda has been recorded with a non-empty hole set after one of its own
\* formals and a primitive name were both visited as variables under it.
C4_Witness ==
  \E i \in 1..h_pc :
     /\ Traversal[i].k = "Lam"
     /\ holes_dict[Traversal[i].id] # {}
     /\ \E j \in 1..(i - 1) : Traversal[j].k = "Var" /\ is_primop(Traversal[j].name)
     /\ \E j \in 1..(i - 1) :
          /\ Traversal[j].k = "Var"
          /\ Traversal[j].name \in ArgSet(Traversal[i])
          /\ Traversal[j] \in {Traversal[i].kids[1].args[a] :
                                 a \in 1..Len(Traversal[i].kids[1].args)}

\* (C8) In every compilation of a well-scoped program the halt continuation
\* is a zero-capture closure: its recorded hole set is empty, its generated
\* definition has no captured fields and it is constructed with no hole
\* arguments.
C8_HaltZeroCapture ==
  (HolesDone /\ WellScoped(rootExp, {}) /\ HaltId \in DOMAIN holes_dict) =>
     /\ holes_dict[HaltId] = {}
     /\ Lowered =>
          \A i \in 1..Len(body.st.lg.decls) :
             body.st.lg.decls[i].key = HaltId => body.st.lg.decls[i].init_args = {}

\* (C10) With no parameter or bound name reused, the hole set of every Lambda
\* is exactly the set of non-primitive names that occur free in it.
C10_HolesAreFreeVars ==
  (HolesDone /\ WellScoped(rootExp, {}) /\ UniqueNames(rootExp)) =>
     \A i \in 1..Len(Traversal) :
        Traversal[i].k = "Lam" => holes_dict[Traversal[i].id] = FreeVars(Traversal[i])

\* The identifiers an operation reads, and those a pair declares.
Uses(op) ==
  CASE op.k = "newlam" -> {Ident(h) : h \in op.holes}
    [] op.k = "prim" -> {op.operands[i] : i \in 1..Len(op.operands)} \cup {op.func}
    [] op.k = "call" -> {op.func} \cup {op.args[i] : i \in 1..Len(op.args)}
    [] op.k = "if" -> {op.cond, op.then, op.else_}
    [] op.k = "move" -> {op.body}
    [] op.k = "halt" -> {op.arg}
    [] OTHER -> {}
Declares(pair) == {pair.decl[i].id : i \in 1..Len(pair.decl)}
DeclaredBefore(decls, i) == UNION {Declares(decls[j]) : j \in 1..(i - 1)}

DeclaredIn(decls) == UNION {Declares(decls[j]) : j \in 1..Len(decls)}

\* Every identifier a pair of the list uses is in scope on entry or declared
\* by an earlier pair; the arms of a conditional are lists of their own,
\* entered with everything declared so far, and the value identifier of an
\* arm is read after the arm's list.
RECURSIVE DeclaredBeforeUse(_, _)
DeclaredBeforeUse(decls, scope) ==
  \A i \in 1..Len(decls) :
     LET seen == scope \cup DeclaredBefore(decls, i)
         op == decls[i].op
         inner == seen \cup Declares(decls[i])
     IN  IF op.k = "if"
         THEN /\ op.cond \in seen
              /\ op.then \in inner \cup DeclaredIn(op.then_decls)
              /\ op.else_ \in inner \cup DeclaredIn(op.else_decls)
              /\ DeclaredBeforeUse(op.then_decls, inner)
              /\ DeclaredBeforeUse(op.else_decls, inner)
         ELSE Uses(op) \subseteq seen

\* (C3) For a well-scoped tree whose callees are primitive names or bound
\* variables, lowering ends with one value identifier and a list of pairs in
\* which every identifier a pair uses is declared by an earlier pair (inside
\* a lifted definition: or is a formal or a captured field of it).
C3_DeclaredEarlier ==
  (Lowered /\ WellScoped(rootExp, {}) /\ ArityOk(rootExp)) =>
     /\ body.st.err = ""
     /\ DeclaredBeforeUse(body.decls, {})
     /\ \A i \in 1..Len(body.st.lg.decls) :
          LET d == body.st.lg.decls[i]
          IN  DeclaredBeforeUse(d.decls,
                 {d.apply_args[a] : a \in 1..Len(d.apply_args)}
                 \cup {Ident(h) : h \in d.init_args})

\* gen_cpp's two first lines and its map, in one step.
gen_cpp(exp) == to_cpp(compute_holes(exp), exp, GenInit)

\* ---------------------------------------------- specification: lifter
\* A compilation of a program with two or three Lambdas (two bindings and
\* halt, or one Lambda node passed twice and a continuation); the Lambdas
\* its map handed to the lifter, each as lowered at that occurrence, are
\* looked up in a fresh lifter in any order, any number of times up to
\* MaxLookups.
MaxLookups == 4
Pool == body.st.lookups

InitLifter ==
  /\ rootExp \in LetRec2Progs \cup SharedLamProgs
  /\ h_pc = Len(PostOrder(rootExp))
  /\ holes = {}
  /\ holes_dict = compute_holes(rootExp)
  /\ body = gen_cpp(rootExp)
  /\ l_lg = LambdaGenCppInit
  /\ l_hist = <<>>
  /\ l_rets = <<>>
  /\ l_first = <<>>

EntryFor(lg, id) == lg.decls[CHOOSE i \in 1..Len(lg.decls) : lg.decls[i].key = id]

\* cls = lambda_gen[exp]
Lookup(i) ==
  LET exp == Pool[i]
      lg2 == LambdaGenCppGetItem(l_lg, exp, holes_dict[exp.id])
  IN  /\ Len(l_hist) < MaxLookups
      /\ l_lg' = lg2
      /\ l_hist' = Append(l_hist, exp.id)
      /\ l_rets' = Append(l_rets, ClsName(exp.id))
      /\ l_first' = IF exp.id \in DOMAIN l_first THEN l_first
                    ELSE (exp.id :> EntryFor(lg2, exp.id)) @@ l_first
      /\ UNCHANGED <<pvars, cvars, tvars, rvars>>

LookupAny == \E i \in 1..Len(Pool) : Lookup(i)
NextLifter == LookupAny
InitL == InitLifter /\ IdlePrim /\ IdleHalt /\ IdleRun
SpecLifter == InitL /\ [][NextLifter]_vars

FirstPos(id) == CHOOSE n \in 1..Len(l_hist) : l_hist[n] = id /\ \A m \in 1..(n - 1) : l_hist[m] # id

\* (C5) After any sequence of lookups the lifter's table holds exactly one
\* definition per distinct Lambda looked up, in first-encountered order; the
\* entry is the one the first lookup created; every lookup of a Lambda
\* returns the name its first lookup returned.
C5_MemoizedOnce ==
  LET d == l_lg.decls
  IN  /\ Len(d) = Cardinality({l_hist[n] : n \in 1..Len(l_hist)})
      /\ {d[i].key : i \in 1..Len(d)} = {l_hist[n] : n \in 1..Len(l_hist)}
      /\ \A i, j \in 1..Len(d) : i < j => FirstPos(d[i].key) < FirstPos(d[j].key)
      /\ \A i \in 1..Len(d) : d[i] = l_first[d[i].key]
      /\ \A n \in 1..Len(l_hist) : l_rets[n] = l_rets[FirstPos(l_hist[n])]

\* ------------------------------------- specification: halt's operation
\* The operation of the halt continuation (the text of lines 258-271) run on
\* one argument slot.  The slot's members share storage (the union of lines
\* 453-458, the tag among them), so the tag the switch reads is not fixed by
\* the member that was written: every tag is possible with every payload.
MaxPayload == 1
Payloads ==
  {[m |-> "num", num |-> v] : v \in 0..MaxPayload}
  \cup {[m |-> "str", num |-> v] : v \in 0..MaxPayload}
  \cup {[m |-> "lam", num |-> 0]}
Tags == {NUM, LAM, STR, "other"}
\* Status reported for a process killed by a memory fault (128 + SIGSEGV).
Killed == 128 + 11
ExitStatus(retval) == retval % 256

InitHalt ==
  /\ t_tag \in Tags
  /\ t_payload \in Payloads
  /\ t_pc = "entry"
  /\ t_retval = 0
  /\ t_out = <<>>
  /\ t_status = 0

\* int retval = 0; switch (arg->type): control goes to the label of the tag
HaltSwitch ==
  /\ t_pc = "entry"
  /\ t_retval' = 0
  /\ t_pc' = IF t_tag \in {NUM, LAM, STR} THEN t_tag ELSE "default"
  /\ UNCHANGED <<t_tag, t_payload, t_out, t_status>>
  /\ UNCHANGED <<pvars, cvars, lvars, rvars>>

\* case NUM: printf("%ld\n", arg->num);  -- no break: control falls into LAM
HaltCaseNum ==
  /\ t_pc = NUM
  /\ t_out' = Append(t_out, "%ld")
  /\ t_pc' = LAM
  /\ UNCHANGED <<t_tag, t_payload, t_retval, t_status>>
  /\ UNCHANGED <<pvars, cvars, lvars, rvars>>

\* case LAM: printf("you want to return a lambda?! ...");  -- falls into STR
HaltCaseLam ==
  /\ t_pc = LAM
  /\ t_out' = Append(t_out, "you want to return a lambda?! really?!")
  /\ t_pc' = STR
  /\ UNCHANGED <<t_tag, t_payload, t_retval, t_status>>
  /\ UNCHANGED <<pvars, cvars, lvars, rvars>>

\* case STR: printf("%s\n", arg->str->c_str());  -- falls into default.
\* The tag shares its storage with every payload member (lines 453-458): a
\* slot whose tag reads STR has had the bytes of its payload overwritten by
\* the tag, or never held a string.  The dereference is undefined for every
\* payload: the process is killed, or prints and goes on.
HaltCaseStr ==
  /\ t_pc = STR
  /\ \/ /\ t_out' = Append(t_out, "%s")
        /\ t_pc' = "default"
        /\ UNCHANGED t_status
     \/ /\ t_pc' = "killed"
        /\ t_status' = Killed
        /\ UNCHANGED t_out
  /\ UNCHANGED <<t_tag, t_payload, t_retval>>
  /\ UNCHANGED <<pvars, cvars, lvars, rvars>>

\* default: printf("error\n"); retval = -1;
HaltDefault ==
  /\ t_pc = "default"
  /\ t_out' = Append(t_out, "error")
  /\ t_retval' = -1
  /\ t_pc' = "exit"
  /\ UNCHANGED <<t_tag, t_payload, t_status>>
  /\ UNCHANGED <<pvars, cvars, lvars, rvars>>

\* exit(retval);
HaltExit ==
  /\ t_pc = "exit"
  /\ t_status' = ExitStatus(t_retval)
  /\ t_pc' = "done"
  /\ UNCHANGED <<t_tag, t_payload, t_retval, t_out>>
  /\ UNCHANGED <<pvars, cvars, lvars, rvars>>

NextHalt ==
  HaltSwitch \/ HaltCaseNum \/ HaltCaseLam \/ HaltCaseStr \/ HaltDefault \/ HaltExit
InitH == InitHalt /\ IdlePrim /\ IdleCompile /\ IdleLifter /\ IdleRun
SpecHalt == InitH /\ [][NextHalt]_vars

\* (C2) halt's operation ends the process with a non-zero status exactly
\* when the tag of its argument is none of Number, Closure, Text; for a
\* Number, a Closure or a Text it exits with status 0.
C2_HaltStatus ==
  t_pc = "done" => (t_status # 0 <=> t_tag \notin {NUM, LAM, STR})

\* ----------------------------------- specification: the emitted main()
\* main() of the generated text (lines 484-491): the declarations of the
\* top-level pairs, then their operations in order, then the trampoline
\* loop.  Programs are recursive-binding blocks of NumBindings closures, each
\* tail-calling a bound name or its own continuation, and one closure of no
\* parameters; the block's body is a call of a bound name or (+ 2 3 halt).
NumBindings == 2
BindNames == <<"f", "g", "h">>
ParamTable == <<(<<"n", "k">>), (<<"m", "j">>), (<<"p", "q">>)>>
ThunkName == "z"
Bound == {BindNames[i] : i \in 1..NumBindings}
Binding(i, target) ==
  LamExp(i, ParamTable[i],
         AppExp(VarExp(IF target = "cont" THEN ParamTable[i][2] ELSE target),
                <<VarExp(ParamTable[i][1]), VarExp(ParamTable[i][2])>>))
ThunkLam ==
  LamExp(NumBindings + 1, <<>>, AppExp(VarExp(BindNames[1]), <<NumExp(1), halt>>))
Mains ==
  {AppExp(VarExp(e), <<NumExp(1), halt>>) : e \in Bound}
  \cup {AppExp(VarExp("+"), <<NumExp(2), NumExp(3), halt>>)}
RunProgs ==
  {LetRecExp([i \in 1..(NumBindings + 1) |->
                IF i <= NumBindings THEN BindNames[i] ELSE ThunkName],
             [i \in 1..(NumBindings + 1) |->
                IF i <= NumBindings THEN Binding(i, ts[i]) ELSE ThunkLam],
             m) :
     ts \in [1..NumBindings -> Bound \cup {"cont"}], m \in Mains}

\* The text is accepted by the C++ compiler only if lowering succeeded, the
\* operator of no parameters that thunk_t::operator()() calls (line 482) is
\* among those declared for range(min_nargs, max_nargs + 1) (lines 221-226),
\* and no class has an empty member-initializer list (line 185).
Builds(b) ==
  /\ b.st.err = ""
  /\ LambdaGenCppDeclsOps(b.st.lg).err = ""
  /\ 0 \in LambdaGenCppDeclsOps(b.st.lg).sigs
  /\ \A i \in 1..Len(b.st.lg.decls) : b.st.lg.decls[i].init_args # {}

\* A slot (schemetype_t): m is the union member last written.
Slot(m, num, cls, caps) == [m |-> m, num |-> num, cls |-> cls, caps |-> caps]
Fresh == Slot("none", 0, <<>>, <<>>)
Null == 0

\* declare(var): var refers to a new slot; THUNK_T var(nullptr): null.
RECURSIVE AllocDecls(_, _, _)
AllocDecls(ds, env, heap) ==
  IF ds = <<>> THEN [env |-> env, heap |-> heap]
  ELSE IF Head(ds).construct
       THEN AllocDecls(Tail(ds), (Head(ds).id :> (Len(heap) + 1)) @@ env,
                       Append(heap, Fresh))
       ELSE AllocDecls(Tail(ds), (Head(ds).id :> Null) @@ env, heap)

MainPairs == body.decls
MainDecls == Flatten(CppCodeDeclsOps(body).decls)
CurOp == CppCodeDeclsOps(body).ops[r_pc + 1]
AtOp(k) == r_phase = "ops" /\ r_pc < Len(MainPairs) /\ CurOp.k = k

\* The value a numeric template stores into ->num.
NumEval(op, xs) ==
  CASE op = "+" -> xs[1] + xs[2]
    [] op = "-" -> xs[1] - xs[2]
    [] op = "*" -> xs[1] * xs[2]
    [] op = "=" -> IF xs[1] = xs[2] THEN 1 ELSE 0
    [] op = "zero?" -> IF xs[1] = 0 THEN 1 ELSE 0
    [] OTHER -> 0

InitRun ==
  /\ rootExp \in {t \in RunProgs : Builds(gen_cpp(t))}
  /\ h_pc = Len(PostOrder(rootExp))
  /\ holes = {}
  /\ holes_dict = compute_holes(rootExp)
  /\ body = gen_cpp(rootExp)
  /\ r_phase = "decls"
  /\ r_pc = 0
  /\ r_env = <<>>
  /\ r_heap = <<>>
  /\ r_calls = <<>>
  /\ r_out = <<>>
  /\ r_status = 0

\* {main_decls}
RunDecls ==
  /\ r_phase = "decls"
  /\ LET a == AllocDecls(MainDecls, <<>>, <<>>)
     IN  r_env' = a.env /\ r_heap' = a.heap
  /\ r_phase' = "ops"
  /\ UNCHANGED <<r_pc, r_calls, r_out, r_status>>
  /\ UNCHANGED <<pvars, cvars, lvars, tvars>>

\* var->type = NUM; var->num = val;
ExecLit ==
  /\ AtOp("lit")
  /\ r_heap' = [r_heap EXCEPT ![r_env[CurOp.var]] = Slot("num", CurOp.val, <<>>, <<>>)]
  /\ r_pc' = r_pc + 1
  /\ UNCHANGED <<r_phase, r_env, r_calls, r_out, r_status>>
  /\ UNCHANGED <<pvars, cvars, lvars, tvars>>

\* var->lam = LAMBDA_T(new cls(holes)): the constructor copies each hole's
\* reference as it is at this point.  The member assigned was never
\* constructed (schemetype_t() { }), so releasing its former content is
\* undefined: the assignment goes through or the process is killed.
ExecNewLam ==
  /\ AtOp("newlam")
  /\ \/ /\ r_heap' = [r_heap EXCEPT ![r_env[CurOp.var]] =
                        Slot("lam", 0, CurOp.cls,
                             [h \in CurOp.holes |-> r_env[Ident(h)]])]
        /\ r_pc' = r_pc + 1
        /\ UNCHANGED <<r_phase, r_status>>
     \/ /\ r_phase' = "exited"
        /\ r_status' = Killed
        /\ UNCHANGED <<r_heap, r_pc>>
  /\ UNCHANGED <<r_env, r_calls, r_out>>
  /\ UNCHANGED <<pvars, cvars, lvars, tvars>>

\* var = std::move(body): var now refers to body's slot, body to nothing
ExecMove ==
  /\ AtOp("move")
  /\ r_env' = [r_env EXCEPT ![CurOp.var] = r_env[CurOp.body], ![CurOp.body] = Null]
  /\ r_pc' = r_pc + 1
  /\ UNCHANGED <<r_phase, r_heap, r_calls, r_out, r_status>>
  /\ UNCHANGED <<pvars, cvars, lvars, tvars>>

\* (*func->lam)(args): *func->lam is a lambda_t, whose operators are declared
\* without virtual (line 222), so the operator run is lambda_t's own (lines
\* 230-233): it prints the arity error and exits with -1.  Through a slot
\* that holds no closure the call is undefined and may also kill the process.
Invoke(func) ==
  LET o == r_env[func]
      closure == o # Null /\ r_heap[o].m = "lam"
  IN  /\ r_calls' = Append(r_calls,
                           [by |-> "main", callee |-> func,
                            cls |-> IF closure THEN r_heap[o].cls ELSE <<>>,
                            target |-> <<"lambda_t", 0>>])
      /\ r_phase' = "exited"
      /\ \/ /\ r_out' = Append(r_out, "error: lambda called with an improper number of arguments")
            /\ r_status' = ExitStatus(-1)
         \/ /\ ~closure
            /\ r_status' = Killed
            /\ UNCHANGED r_out

\* prim->type = typ; body; var = std::move((*func->lam)(prim));
ExecPrim ==
  /\ AtOp("prim")
  /\ r_heap' = [r_heap EXCEPT ![r_env[CurOp.prim]] =
                  Slot("num",
                       NumEval(CurOp.primop,
                               [i \in 1..Len(CurOp.operands) |->
                                  r_heap[r_env[CurOp.operands[i]]].num]),
                       <<>>, <<>>)]
  /\ Invoke(CurOp.func)
  /\ UNCHANGED <<r_pc, r_env>>
  /\ UNCHANGED <<pvars, cvars, lvars, tvars>>

\* var = std::move((*func->lam)(args));
ExecCall ==
  /\ AtOp("call")
  /\ Invoke(CurOp.func)
  /\ UNCHANGED <<r_pc, r_env, r_heap>>
  /\ UNCHANGED <<pvars, cvars, lvars, tvars>>

NextRun == RunDecls \/ ExecLit \/ ExecNewLam \/ ExecMove \/ ExecPrim \/ ExecCall
InitR == InitRun /\ IdlePrim /\ IdleLifter /\ IdleHalt
SpecRun == InitR /\ [][NextRun]_vars

\* (C1) Every closure invocation of the generated program is performed by
\* the trampoline loop, and the process is ended by the halt continuation
\* running inside that loop.
C1_TrampolineInvokes ==
  /\ \A i \in 1..Len(r_calls) : r_calls[i].by = "trampoline"
  /\ (r_phase = "exited" /\ r_calls # <<>>) =>
        r_calls[Len(r_calls)].target = ClsName(HaltId)

BlockNames == Bound \cup {ThunkName}
LastMove ==
  CHOOSE i \in 1..Len(MainPairs) :
    /\ MainPairs[i].op.k = "move"
    /\ \A j \in (i + 1)..Len(MainPairs) : MainPairs[j].op.k # "move"
BlockDone == r_phase \in {"ops", "exited"} /\ r_pc >= LastMove

\* (C9) Once every declaration and operation of a recursive-binding block
\* has run, each hole of a bound closure that names a binding of the block
\* refers to the closure assigned to that binding, not to the slot the name
\* was declared with.
C9_HolesHoldBindings ==
  BlockDone =>
    \A b \in BlockNames :
      LET c == r_heap[r_env[Ident(b)]]
      IN  \A h \in (DOMAIN c.caps) \cap BlockNames :
            /\ c.caps[h] = r_env[Ident(h)]
            /\ r_heap[c.caps[h]].m = "lam"

====
